---- MODULE Spec2Model ----
(***************************************************************************)
(* Model of website-status-checker (src/main.rs): argument handling, the   *)
(* mpsc channel of URLs, the worker threads that share the receiver behind *)
(* a mutex, check_website's retry loop, the shared result vector, the      *)
(* summary statistics and the status.json report.                          *)
(*                                                                         *)
(* WebsiteStatus.timestamp (chrono::Local::now()) is not modelled: nothing *)
(* in the program reads it back.                                           *)
(***************************************************************************)
EXTENDS Integers, Sequences, FiniteSets, TLC

\* ---------------------------------------------------------------- bounds
MaxWorkers == 2
MaxUrls == 2
MaxRetries == 1

\* ------------------------------------------------------ program constants
DefaultTimeout == 5
DefaultRetries == 0
RetryDelayMs == 100

\* ------------------------------------------------------------ environment
\* The remote endpoints.  "up" always answers 200, "down" never answers,
\* "flaky" either fails at the transport level or answers 503.
Urls == {"up", "down", "flaky"}

\* Wall-clock cost of one GET to each endpoint, in milliseconds.
AttemptMs(u) ==
    CASE u = "up" -> 10
      [] u = "down" -> 20
      [] OTHER -> 30

Ok(code) == [ok |-> TRUE, code |-> code, err |-> ""]
Err(msg) == [ok |-> FALSE, code |-> 0, err |-> msg]
NoResult == [ok |-> FALSE, code |-> 0, err |-> "unset"]

\* Outcomes client.get(url).timeout(t).send() can have for one call.  With a
\* zero timeout the call may also expire before any answer arrives.
Transport(u, t) ==
    LET answers == CASE u = "up" -> {Ok(200)}
                     [] u = "down" -> {Err("connect error")}
                     [] OTHER -> {Err("timed out"), Ok(503)}
    IN  IF t = 0 THEN answers \cup {Err("timed out")} ELSE answers

\* -------------------------------------------------------------- arguments
\* A numeric option is absent (the default applies), given as the last
\* argument without a value, given a value that does not parse, or a number.
Absent == [state |-> "absent", value |-> 0]
Missing == [state |-> "missing", value |-> 0]
Invalid == [state |-> "invalid", value |-> 0]
Value(n) == [state |-> "value", value |-> n]

SeqsUpTo(S, n) == UNION {[1..k -> S] : k \in 0..n}

\* Lines of the --file file: blank (after trim), comment (#...), or a URL.
BlankLine == [kind |-> "blank", url |-> ""]
CommentLine == [kind |-> "comment", url |-> ""]
UrlLine(u) == [kind |-> "url", url |-> u]

NoFile == [state |-> "absent", lines |-> <<>>]
MissingFile == [state |-> "missing", lines |-> <<>>]
UnreadableFile == [state |-> "unreadable", lines |-> <<>>]
ReadableFile(ls) == [state |-> "readable", lines |-> ls]

\* The --file arguments explored: none, the flag without a path, a file
\* that cannot be read, an empty file, a file without any usable line, and
\* a file with one URL among lines that are skipped.
FileArgs == {NoFile, MissingFile, UnreadableFile,
             ReadableFile(<<>>),
             ReadableFile(<<BlankLine, CommentLine>>),
             ReadableFile(<<CommentLine, UrlLine("up"), BlankLine>>)}

IsBad(v) == v \in {Missing, Invalid}

\* Values given to the options.  Only values that behave differently from
\* what the defaults already produce are given explicitly: a positive
\* --timeout acts as the default of 5 s does, --retries 0 is the default,
\* and --workers n with n >= 1 acts as a host with n logical CPUs.
WorkerArgs == {Absent, Missing, Invalid, Value(0)}
TimeoutArgs == {Absent, Missing, Invalid, Value(0)}
RetryArgs == {Absent, Missing, Invalid} \cup {Value(n) : n \in 1..MaxRetries}

\* Number of URLs a command line yields once the file has been read.
UrlLineCount(ls) == Cardinality({i \in 1..Len(ls) : ls[i].kind = "url"})

\* The command lines explored: the combinations of options, file and URLs
\* in which at most one option is malformed (the first malformed option ends
\* the run), a readable file comes with at most one URL on the command
\* line, and the total number of URLs stays within MaxUrls.
ArgVectors ==
    {a \in [file : FileArgs, workers : WorkerArgs, timeout : TimeoutArgs,
            retries : RetryArgs, urls : SeqsUpTo(Urls, MaxUrls)] :
        /\ Cardinality({f \in {"workers", "timeout", "retries"} : IsBad(a[f])})
             + (IF a.file.state = "missing" THEN 1 ELSE 0) <= 1
        /\ (\E f \in {"workers", "timeout", "retries"} : IsBad(a[f]))
             => a.file = NoFile /\ a.urls = <<>>
        /\ a.file.state \in {"missing", "unreadable"} => a.urls = <<>>
        /\ a.file.state = "readable" => Len(a.urls) <= 1
        /\ Len(a.urls) + UrlLineCount(a.file.lines) <= MaxUrls}

\* ------------------------------------------------------------------ state
VARIABLES
    args,         \* the command line (never changes)
    numCpus,      \* num_cpus::get() of the host
    mainPc,       \* position of main
    exitCode,     \* process exit status, -1 while running
    stderr,       \* last error message written by main
    workers, timeout, retries, urls,   \* main's parsed configuration
    channelCreated, queue, txDropped,  \* the mpsc channel
    sent,         \* number of URLs main has sent
    rxLock,       \* holder of Mutex<Receiver>: 0 (free) or a worker
    resultsLock,  \* holder of Mutex<Vec>: 0 (free), a worker, or MainThread
    handles,      \* number of worker threads spawned
    joined,       \* number of handles joined
    pc,           \* position of each worker thread
    url,          \* the URL a worker received
    attempts,     \* check_website's attempts counter
    response,     \* check_website's `response`: outcome of the last send()
    calls,        \* number of send() calls of the current check_website
    sleeps,       \* number of retry delays of the current check_website
    elapsed,      \* time since `start` in the worker body, in ms
    result,       \* what check_website returned
    pending,      \* history: the workers whose check has returned and whose
                  \* result is not yet in the vector, in order of return
    results,      \* the shared Vec<WebsiteStatus>
    stdout,       \* the live [SUCCESS]/[FAILURE] lines printed so far
    summary,      \* the summary printed by main
    report        \* the entries written to status.json

mainVars == <<mainPc, exitCode, stderr, workers, timeout, retries, urls,
              sent, handles, joined, summary, report>>
chanVars == <<channelCreated, queue, txDropped>>
workerVars == <<pc, url, attempts, response, calls, sleeps, elapsed,
               result, pending>>
vars == <<args, numCpus, mainVars, chanVars, rxLock, resultsLock, workerVars,
          results, stdout>>

MainThread == -1
Workers == 1..MaxWorkers
NoSummary == [kind |-> "none"]
NoReport == [written |-> FALSE, entries |-> <<>>]

Init ==
    /\ args \in ArgVectors
    /\ numCpus \in 1..MaxWorkers
    /\ (args.workers # Absent => numCpus = 1)   \* unused then
    /\ mainPc = "parse"
    /\ exitCode = -1
    /\ stderr = ""
    /\ workers = 0 /\ timeout = 0 /\ retries = 0 /\ urls = <<>>
    /\ channelCreated = FALSE /\ queue = <<>> /\ txDropped = FALSE
    /\ sent = 0
    /\ rxLock = 0 /\ resultsLock = 0
    /\ handles = 0 /\ joined = 0
    /\ pc = [w \in Workers |-> "unspawned"]
    /\ url = [w \in Workers |-> ""]
    /\ attempts = [w \in Workers |-> 0]
    /\ response = [w \in Workers |-> NoResult]
    /\ calls = [w \in Workers |-> 0]
    /\ sleeps = [w \in Workers |-> 0]
    /\ elapsed = [w \in Workers |-> 0]
    /\ result = [w \in Workers |-> NoResult]
    /\ pending = <<>>
    /\ results = <<>>
    /\ stdout = <<>>
    /\ summary = NoSummary
    /\ report = NoReport

\* ------------------------------------------------------------------- main
Exit(code, msg) ==
    /\ mainPc' = "exited"
    /\ exitCode' = code
    /\ stderr' = msg

OptionError(v) ==
    IF v = Missing THEN "Error: option requires a value"
    ELSE "Error: option requires a valid number"

\* main, lines 18-88: the argument loop.
MainParseArgs ==
    /\ mainPc = "parse"
    /\ UNCHANGED <<args, numCpus, chanVars, rxLock, resultsLock, workerVars,
                   results, stdout, sent, handles, joined, summary, report>>
    /\ IF /\ args.file = NoFile /\ args.urls = <<>>
          /\ args.workers = Absent /\ args.timeout = Absent
          /\ args.retries = Absent
       THEN Exit(2, "") /\ UNCHANGED <<workers, timeout, retries, urls>>
       ELSE IF args.file.state = "missing"
       THEN /\ Exit(2, "Error: --file requires a file path")
            /\ UNCHANGED <<workers, timeout, retries, urls>>
       ELSE IF IsBad(args.workers)
       THEN /\ Exit(2, OptionError(args.workers))
            /\ UNCHANGED <<workers, timeout, retries, urls>>
       ELSE IF IsBad(args.timeout)
       THEN /\ Exit(2, OptionError(args.timeout))
            /\ UNCHANGED <<workers, timeout, retries, urls>>
       ELSE IF IsBad(args.retries)
       THEN /\ Exit(2, OptionError(args.retries))
            /\ UNCHANGED <<workers, timeout, retries, urls>>
       ELSE /\ workers' = IF args.workers = Absent THEN numCpus
                          ELSE args.workers.value
            /\ timeout' = IF args.timeout = Absent THEN DefaultTimeout
                          ELSE args.timeout.value
            /\ retries' = IF args.retries = Absent THEN DefaultRetries
                          ELSE args.retries.value
            /\ urls' = args.urls
            /\ mainPc' = "readfile"
            /\ UNCHANGED <<exitCode, stderr>>

\* The lines of the file that become URLs (lines 94-99).
RECURSIVE UsableLines(_)
UsableLines(ls) ==
    IF ls = <<>> THEN <<>>
    ELSE IF Head(ls).kind = "url"
         THEN <<Head(ls).url>> \o UsableLines(Tail(ls))
         ELSE UsableLines(Tail(ls))

\* main, lines 90-106.
MainReadFile ==
    /\ mainPc = "readfile"
    /\ UNCHANGED <<args, numCpus, chanVars, rxLock, resultsLock, workerVars,
                   results, stdout, workers, timeout, retries, sent, handles,
                   joined, summary, report>>
    /\ IF args.file.state = "unreadable"
       THEN Exit(2, "Error reading file") /\ UNCHANGED urls
       ELSE /\ urls' = urls \o UsableLines(args.file.lines)
            /\ mainPc' = "checkurls"
            /\ UNCHANGED <<exitCode, stderr>>

\* A start that does not look at the URL list.
NoUrlsIgnored(us) == FALSE

\* Line 109: urls.is_empty().
NoUrls(us) == us = <<>>

\* main, lines 108-113.
MainCheckUrls ==
    /\ mainPc = "checkurls"
    /\ UNCHANGED <<args, numCpus, chanVars, rxLock, resultsLock, workerVars,
                   results, stdout, workers, timeout, retries, urls, sent,
                   handles, joined, summary, report>>
    /\ IF NoUrls(urls)
       THEN Exit(2, "Error: No URLs provided")
       ELSE mainPc' = "channel" /\ UNCHANGED <<exitCode, stderr>>

\* main, lines 115-123.
MainCreateChannel ==
    /\ mainPc = "channel"
    /\ channelCreated' = TRUE
    /\ mainPc' = "spawn"
    /\ UNCHANGED <<args, numCpus, exitCode, stderr, workers, timeout, retries,
                   urls, sent, handles, joined, summary, report, queue,
                   txDropped, rxLock, resultsLock, workerVars, results, stdout>>

\* main, lines 124-158: one iteration of the spawn loop starts a worker
\* thread; when the loop is over main goes on to send the URLs.
MainSpawn ==
    /\ mainPc = "spawn"
    /\ IF handles < workers
       THEN /\ handles' = handles + 1
            /\ pc' = [pc EXCEPT ![handles + 1] = "lock"]
            /\ UNCHANGED mainPc
       ELSE /\ mainPc' = "send"
            /\ UNCHANGED <<handles, pc>>
    /\ UNCHANGED <<args, numCpus, exitCode, stderr, workers, timeout, retries,
                   urls, sent, joined, summary, report, chanVars, rxLock,
                   resultsLock, url, attempts, response, calls, sleeps,
                   elapsed, result, pending, results, stdout>>

\* main, lines 161-163: tx.send(url) for the next URL.  The receiver is kept
\* alive by main's own Arc, so send never fails.
MainSend ==
    /\ mainPc = "send"
    /\ sent < Len(urls)
    /\ queue' = Append(queue, urls[sent + 1])
    /\ sent' = sent + 1
    /\ UNCHANGED <<args, numCpus, mainPc, exitCode, stderr, workers, timeout,
                   retries, urls, handles, joined, summary, report,
                   channelCreated, txDropped, rxLock, resultsLock, workerVars,
                   results, stdout>>

\* main, line 166: drop(tx) closes the channel.
MainDropTx ==
    /\ mainPc = "send"
    /\ sent = Len(urls)
    /\ txDropped' = TRUE
    /\ mainPc' = "join"
    /\ UNCHANGED <<args, numCpus, exitCode, stderr, workers, timeout, retries,
                   urls, sent, handles, joined, summary, report,
                   channelCreated, queue, rxLock, resultsLock, workerVars,
                   results, stdout>>

\* A join that does not wait for the thread.
JoinReadyAlways(w) == TRUE

\* handle.join() returns once the thread has returned from its closure.
JoinReady(w) == pc[w] = "done"

\* main, lines 169-171: join the next handle.
MainJoin ==
    /\ mainPc = "join"
    /\ joined < handles
    /\ JoinReady(joined + 1)
    /\ joined' = joined + 1
    /\ UNCHANGED <<args, numCpus, mainPc, exitCode, stderr, workers, timeout,
                   retries, urls, sent, handles, summary, report, chanVars,
                   rxLock, resultsLock, workerVars, results, stdout>>

\* main, line 174: results.lock() once every handle has been joined; the
\* guard lives until the end of main.
MainLockResults ==
    /\ mainPc = "join"
    /\ joined = handles
    /\ resultsLock = 0
    /\ resultsLock' = MainThread
    /\ mainPc' = "summary"
    /\ UNCHANGED <<args, numCpus, exitCode, stderr, workers, timeout, retries,
                   urls, sent, handles, joined, summary, report, chanVars,
                   rxLock, workerVars, results, stdout>>

\* ---------------------------------------------------------------- summary
\* A filter that lets every result through, failed checks included.
RECURSIVE TimesOfAll(_)
TimesOfAll(rs) ==
    IF rs = <<>> THEN <<>>
    ELSE <<Head(rs).response_time_ms>> \o TimesOfAll(Tail(rs))

\* filter_map of lines 175-178: the response times of the Ok results, in
\* the order of the vector.
RECURSIVE Times(_)
Times(rs) ==
    IF rs = <<>> THEN <<>>
    ELSE IF Head(rs).status.ok
         THEN <<Head(rs).response_time_ms>> \o Times(Tail(rs))
         ELSE Times(Tail(rs))

RECURSIVE Insert(_, _)
Insert(x, s) ==
    IF s = <<>> THEN <<x>>
    ELSE IF x <= Head(s) THEN <<x>> \o s
         ELSE <<Head(s)>> \o Insert(x, Tail(s))

\* times.sort() of line 181.
RECURSIVE SortTimes(_)
SortTimes(s) == IF s = <<>> THEN <<>> ELSE Insert(Head(s), SortTimes(Tail(s)))

RECURSIVE SumSeq(_)
SumSeq(s) == IF s = <<>> THEN 0 ELSE Head(s) + SumSeq(Tail(s))

\* Line 184 and the {:.2} of line 186: sum / len printed with two decimals,
\* as a number of hundredths, ties to even.
AvgCenti(sum, len) ==
    LET q == (100 * sum) \div len
        r == (100 * sum) % len
    IN  IF 2 * r > len THEN q + 1
        ELSE IF 2 * r = len THEN q + (q % 2)
        ELSE q

\* Line 180: whether there is anything to summarize.
HasTimes(times) == times # <<>>

\* A summary that falls back to zeros when there is no successful response.
SummarizeZeros(rs) ==
    LET times == SortTimes(Times(rs))
    IN  [kind |-> "stats",
         min |-> IF times = <<>> THEN 0 ELSE times[1],
         max |-> IF times = <<>> THEN 0 ELSE times[Len(times)],
         avg |-> IF times = <<>> THEN 0
                 ELSE AvgCenti(SumSeq(times), Len(times))]

\* main, lines 175-191.
Summarize(rs) ==
    LET times == SortTimes(Times(rs))
    IN  IF HasTimes(times)
        THEN [kind |-> "stats",
              min |-> times[1],
              max |-> times[Len(times)],
              avg |-> AvgCenti(SumSeq(times), Len(times))]
        ELSE [kind |-> "empty"]

MainSummary ==
    /\ mainPc = "summary"
    /\ summary' = Summarize(results)
    /\ mainPc' = "report"
    /\ UNCHANGED <<args, numCpus, exitCode, stderr, workers, timeout, retries,
                   urls, sent, handles, joined, report, chanVars, rxLock,
                   resultsLock, workerVars, results, stdout>>

\* One entry of status.json (lines 196-203).
JsonEntry(st) ==
    [url |-> st.url,
     key |-> IF st.status.ok THEN "Ok" ELSE "Err",
     code |-> st.status.code,
     err |-> st.status.err,
     response_time_ms |-> st.response_time_ms]

\* main, lines 193-215: build the JSON text and write status.json; main
\* panics (exit status 101) when the file cannot be created or written.
\* Returning from main drops the guard on the result vector.
MainReport ==
    /\ mainPc = "report"
    /\ \E fileOk \in BOOLEAN :
          IF fileOk
          THEN /\ report' = [written |-> TRUE,
                             entries |-> [i \in 1..Len(results) |->
                                            JsonEntry(results[i])]]
               /\ mainPc' = "done"
               /\ exitCode' = 0
          ELSE /\ report' = report
               /\ mainPc' = "panicked"
               /\ exitCode' = 101
    /\ resultsLock' = 0
    /\ UNCHANGED <<args, numCpus, stderr, workers, timeout, retries, urls,
                   sent, handles, joined, summary, chanVars, rxLock,
                   workerVars, results, stdout>>

\* ---------------------------------------------------------------- workers
\* A receiver handed to the workers without mutual exclusion.
RxAvailableAlways == TRUE

\* Line 129: rx.lock() returns once no other thread holds the guard.
RxAvailable == rxLock = 0

\* Line 129, rx.lock(): the guard is a temporary of the `while let`
\* scrutinee, so it is dropped only when the iteration ends, after the body.
WorkerLock(w) ==
    /\ pc[w] = "lock"
    /\ RxAvailable
    /\ rxLock' = w
    /\ pc' = [pc EXCEPT ![w] = "recv"]
    /\ UNCHANGED <<args, numCpus, mainVars, chanVars, resultsLock, url,
                   attempts, response, calls, sleeps, elapsed, result,
                   pending, results, stdout>>

\* A receive that gives up as soon as the queue is empty (try_recv).
DisconnectedWhenEmpty == queue = <<>>

\* A channel whose sender is never seen as gone (a sender kept alive).
DisconnectedNever == FALSE

\* recv() returns Err once the channel is empty and the sender is gone.
Disconnected == queue = <<>> /\ txDropped

\* A guard on the receiver that is dropped as soon as recv() has returned.
RxReleasedAfterRecv(w) == 0

\* Holder of the receiver's mutex once recv() has returned: still the
\* worker, whose guard lives until the end of the iteration.
RxAfterRecv(w) == w

\* Lines 129-130 and 219: recv() yields the next URL; the body starts its
\* timer and check_website starts with attempts = 0.
WorkerRecv(w) ==
    /\ pc[w] = "recv"
    /\ queue # <<>>
    /\ url' = [url EXCEPT ![w] = Head(queue)]
    /\ queue' = Tail(queue)
    /\ attempts' = [attempts EXCEPT ![w] = 0]
    /\ response' = [response EXCEPT ![w] = NoResult]
    /\ calls' = [calls EXCEPT ![w] = 0]
    /\ sleeps' = [sleeps EXCEPT ![w] = 0]
    /\ elapsed' = [elapsed EXCEPT ![w] = 0]
    /\ result' = [result EXCEPT ![w] = NoResult]
    /\ pc' = [pc EXCEPT ![w] = "attempt"]
    /\ rxLock' = RxAfterRecv(w)
    /\ UNCHANGED <<args, numCpus, mainVars, channelCreated, txDropped,
                   resultsLock, pending, results, stdout>>

\* Line 129: recv() fails, the loop ends, the guard is dropped and the
\* thread returns.
WorkerExit(w) ==
    /\ pc[w] = "recv"
    /\ Disconnected
    /\ rxLock' = 0
    /\ pc' = [pc EXCEPT ![w] = "done"]
    /\ UNCHANGED <<args, numCpus, mainVars, chanVars, resultsLock, url,
                   attempts, response, calls, sleeps, elapsed, result,
                   pending, results, stdout>>

\* A check that takes a 5xx answer for a failure to be retried.
IsResponseBelow500(r) == r.ok /\ r.code < 500

\* Line 228: send() returned a response, whatever its status.
IsResponse(r) == r.ok

\* A budget test that is off by one (>= for >).
ExhaustedEarly(n, r) == n >= r

\* Line 231: the retry budget is used up.
Exhausted(n, r) == n > r

\* A worker that returns from its closure on a failed check.
AfterFailureReturn == "done"

\* Where the worker goes once check_website has returned Err.
AfterFailure == "print"

\* check_website, lines 222-233: one GET.  A response of any status returns
\* Ok(code); a transport error counts an attempt and returns Err when the
\* count exceeds `retries`, otherwise the loop goes on to the delay.
\* `attempts` is a u32: it would overflow only after 2^32 failed attempts,
\* which needs retries = 2^32 - 1, beyond the values explored here (and
\* beyond the integers of the model checker).
CheckAttempt(w) ==
    /\ pc[w] = "attempt"
    /\ \E r \in Transport(url[w], timeout) :
          /\ response' = [response EXCEPT ![w] = r]
          /\ calls' = [calls EXCEPT ![w] = @ + 1]
          /\ elapsed' = [elapsed EXCEPT ![w] = @ + AttemptMs(url[w])]
          /\ IF IsResponse(r)
             THEN /\ result' = [result EXCEPT ![w] = Ok(r.code)]
                  /\ pending' = Append(pending, w)
                  /\ pc' = [pc EXCEPT ![w] = "print"]
                  /\ UNCHANGED attempts
             ELSE LET n == attempts[w] + 1
                  IN  /\ attempts' = [attempts EXCEPT ![w] = n]
                      /\ IF Exhausted(n, retries)
                         THEN /\ result' = [result EXCEPT ![w] = Err(r.err)]
                              /\ pending' = Append(pending, w)
                              /\ pc' = [pc EXCEPT ![w] = AfterFailure]
                         ELSE /\ pc' = [pc EXCEPT ![w] = "sleep"]
                              /\ UNCHANGED <<result, pending>>
    /\ UNCHANGED <<args, numCpus, mainVars, chanVars, rxLock, resultsLock,
                   url, sleeps, results, stdout>>

\* A retry that also records the failed attempt in the shared vector.
CheckSleepRecording(w) ==
    /\ pc[w] = "sleep"
    /\ sleeps' = [sleeps EXCEPT ![w] = @ + 1]
    /\ elapsed' = [elapsed EXCEPT ![w] = @ + RetryDelayMs]
    /\ pc' = [pc EXCEPT ![w] = "attempt"]
    /\ results' = Append(results, [url |-> url[w], status |-> response[w],
                                   response_time_ms |-> elapsed[w]])
    /\ UNCHANGED <<args, numCpus, mainVars, chanVars, rxLock, resultsLock,
                   url, attempts, response, calls, result, pending, stdout>>

\* A retry that goes straight to the next attempt, without the delay.
CheckSleepSkipped(w) ==
    /\ pc[w] = "sleep"
    /\ pc' = [pc EXCEPT ![w] = "attempt"]
    /\ UNCHANGED <<args, numCpus, mainVars, chanVars, rxLock, resultsLock,
                   url, attempts, response, calls, sleeps, elapsed, result,
                   pending, results, stdout>>

\* check_website, line 235: thread::sleep(100 ms), then the next attempt.
CheckSleep(w) ==
    /\ pc[w] = "sleep"
    /\ sleeps' = [sleeps EXCEPT ![w] = @ + 1]
    /\ elapsed' = [elapsed EXCEPT ![w] = @ + RetryDelayMs]
    /\ pc' = [pc EXCEPT ![w] = "attempt"]
    /\ UNCHANGED <<args, numCpus, mainVars, chanVars, rxLock, resultsLock,
                   url, attempts, response, calls, result, pending, results,
                   stdout>>

\* A status built from an outcome slot shared by all workers (the first
\* worker's) instead of the worker's own.
StatusFromSharedSlot(w) ==
    [url |-> url[w], status |-> result[1], response_time_ms |-> elapsed[w]]

\* Lines 132-139: the WebsiteStatus built from the outcome.
Status(w) ==
    [url |-> url[w], status |-> result[w], response_time_ms |-> elapsed[w]]

\* A live output that prints the successful checks only.
NotifySuccessOnly(out, st) == IF st.status.ok THEN Append(out, st) ELSE out

\* Lines 142-151: println! of the [SUCCESS] or [FAILURE] line.
Notify(out, st) == Append(out, st)

\* Lines 142-151: the live line on stdout.
WorkerPrint(w) ==
    /\ pc[w] = "print"
    /\ stdout' = Notify(stdout, Status(w))
    /\ pc' = [pc EXCEPT ![w] = "push"]
    /\ UNCHANGED <<args, numCpus, mainVars, chanVars, rxLock, resultsLock,
                   url, attempts, response, calls, sleeps, elapsed, result,
                   pending, results>>

\* Line 154: results.lock().
WorkerLockResults(w) ==
    /\ pc[w] = "push"
    /\ resultsLock = 0
    /\ resultsLock' = w
    /\ pc' = [pc EXCEPT ![w] = "pushing"]
    /\ UNCHANGED <<args, numCpus, mainVars, chanVars, rxLock, url, attempts,
                   response, calls, sleeps, elapsed, result, pending, results,
                   stdout>>

\* A push at the front of the vector.
PushFront(rs, st) == <<st>> \o rs

\* A push that overwrites the last element instead of growing the vector.
PushOverwrite(rs, st) ==
    IF rs = <<>> THEN <<st>> ELSE [rs EXCEPT ![Len(rs)] = st]

\* What push does to the vector.
Push(rs, st) == Append(rs, st)

\* Lines 154-155: push, drop both guards (the one on the vector at the end
\* of the statement, the one on the receiver at the end of the iteration)
\* and go back to the loop condition; the locals of the body go out of
\* scope.
WorkerPush(w) ==
    /\ pc[w] = "pushing"
    /\ results' = Push(results, Status(w))
    /\ resultsLock' = 0
    /\ rxLock' = 0
    /\ pc' = [pc EXCEPT ![w] = "lock"]
    /\ url' = [url EXCEPT ![w] = ""]
    /\ attempts' = [attempts EXCEPT ![w] = 0]
    /\ response' = [response EXCEPT ![w] = NoResult]
    /\ calls' = [calls EXCEPT ![w] = 0]
    /\ sleeps' = [sleeps EXCEPT ![w] = 0]
    /\ elapsed' = [elapsed EXCEPT ![w] = 0]
    /\ result' = [result EXCEPT ![w] = NoResult]
    /\ pending' = SelectSeq(pending, LAMBDA x : x # w)
    /\ UNCHANGED <<args, numCpus, mainVars, chanVars, stdout>>

\* ------------------------------------------------------------------- spec
MainStep ==
    \/ MainParseArgs
    \/ MainReadFile
    \/ MainCheckUrls
    \/ MainCreateChannel
    \/ MainSpawn
    \/ MainSend
    \/ MainDropTx
    \/ MainJoin
    \/ MainLockResults
    \/ MainSummary
    \/ MainReport

WorkerStep(w) ==
    \/ WorkerLock(w)
    \/ WorkerRecv(w)
    \/ WorkerExit(w)
    \/ CheckAttempt(w)
    \/ CheckSleep(w)
    \/ WorkerPrint(w)
    \/ WorkerLockResults(w)
    \/ WorkerPush(w)

Next == MainStep \/ \E w \in Workers : WorkerStep(w)

Spec == Init /\ [][Next]_vars

\* The operating system schedules every thread that can run, and every GET
\* ends (with a response, an error or the timeout).
FairSpec == Spec /\ WF_vars(MainStep) /\ \A w \in Workers : WF_vars(WorkerStep(w))

\* ----------------------------------------------------------------- claims
\* The URL list the command line amounts to.
InputUrls ==
    args.urls \o (IF args.file.state = "readable"
                  THEN UsableLines(args.file.lines) ELSE <<>>)

Count(u, us) == Cardinality({i \in 1..Len(us) : us[i] = u})
ResultUrls == [i \in 1..Len(results) |-> results[i].url]

\* main is past the join loop.
AllJoined ==
    \/ mainPc \in {"summary", "report", "done", "panicked"}
    \/ mainPc = "join" /\ joined = handles

\* check_website has returned in worker w.
Returned(w) == pc[w] \in {"print", "push", "pushing"}

\* C1: with at least one worker, once all workers have been joined the
\* result vector holds exactly one entry per input URL: as many entries as
\* URLs, and the same multiset of URLs (duplicates give separate entries).
C1_ExactlyOnce ==
    (AllJoined /\ workers >= 1) =>
        /\ Len(results) = Len(InputUrls)
        /\ \A u \in Urls : Count(u, ResultUrls) = Count(u, InputUrls)
        /\ queue = <<>>

C1_Witness ==
    /\ AllJoined /\ workers = 2
    /\ Len(InputUrls) = 2 /\ InputUrls[1] = InputUrls[2]
    /\ Len(results) = 2

\* The current call of check_website in worker w has made at least one
\* call of send() and none of them got a response.
AllCallsFailed(w) == calls[w] >= 1 /\ calls[w] = attempts[w]

\* C2: a URL that never answers has every call fail, and while every call of
\* check_website so far has failed, check_website returns only after exactly
\* retries + 1 calls, with a Failure: it is about to wait or has waited for
\* a further attempt only while it has made at most retries calls, so with
\* retries = 0 the single call is the last.
C2_AttemptsBounded ==
    \A w \in Workers :
        /\ (url[w] = "down" /\ calls[w] >= 1) => AllCallsFailed(w)
        /\ AllCallsFailed(w) =>
            /\ Returned(w) => ~result[w].ok /\ calls[w] = retries + 1
            /\ pc[w] \in {"attempt", "sleep"} => calls[w] <= retries
            /\ pc[w] \in {"attempt", "sleep"} \/ Returned(w)

C2_Witness ==
    \E w \in Workers :
        /\ url[w] = "down" /\ Returned(w)
        /\ retries = 1 /\ calls[w] = 2 /\ ~result[w].ok

\* C3: once send() has returned a response in the current call of
\* check_website, whatever its status code and however many attempts failed
\* before, check_website has returned Ok of that code: no attempt and no
\* delay follows.
C3_ResponseReturnsAtOnce ==
    \A w \in Workers :
        response[w].ok =>
            /\ Returned(w)
            /\ result[w] = Ok(response[w].code)
            /\ calls[w] = attempts[w] + 1
            /\ sleeps[w] = attempts[w]

C3_Witness ==
    \E w \in Workers :
        /\ response[w].ok /\ response[w].code = 503
        /\ attempts[w] >= 1
        /\ result[w] = Ok(503)

\* C4: while a worker is inside the attempt sequence of a URL, an idle
\* worker can take the receiver and pull the next unclaimed URL.
C4_OthersPull ==
    \A w, v \in Workers :
        (w # v /\ pc[w] \in {"attempt", "sleep"} /\ pc[v] = "lock"
              /\ queue # <<>>)
            => ENABLED WorkerLock(v)

\* A worker holds the outcome of a failed attempt sequence.
HoldsFailure(w) == result[w] # NoResult /\ ~result[w].ok

\* main has gone through the summary and the report steps.
ReportStepDone == mainPc \in {"done", "panicked"} /\ summary # NoSummary

\* C5: a worker that holds a Failure is on its way to append it, still
\* inside its loop; its push appends that Failure for its own URL and takes
\* the worker back to the head of the loop; and the run then still reaches
\* the summary and the report steps, with one result for every input URL.
C5_FailureDoesNotAbort ==
    /\ [](\A w \in Workers : HoldsFailure(w) => Returned(w))
    /\ [][\A w \in Workers :
             (HoldsFailure(w) /\ pc[w] = "pushing" /\ pc'[w] # "pushing") =>
                 /\ pc'[w] = "lock"
                 /\ Len(results') = Len(results) + 1
                 /\ results'[Len(results')].url = url[w]
                 /\ results'[Len(results')].status = result[w]
                 /\ SubSeq(results', 1, Len(results)) = results]_vars
    /\ (\E w \in Workers : HoldsFailure(w)) ~>
           (ReportStepDone /\ Len(results) = Len(InputUrls)
              /\ \A u \in Urls : Count(u, ResultUrls) = Count(u, InputUrls))

C5_Witness ==
    /\ ReportStepDone
    /\ Len(results) = 2
    /\ ~results[1].status.ok /\ results[2].status.ok

\* main has started reading the result vector for the summary.
SummaryStarted == mainPc \in {"summary", "report", "done", "panicked"}

\* C6: when main reads the result vector for the summary and the report,
\* every worker thread has returned, and from then on the vector does not
\* change.
C6_DrainBarrier ==
    /\ [](SummaryStarted =>
            /\ handles = workers
            /\ \A w \in Workers : pc[w] = IF w <= workers THEN "done"
                                          ELSE "unspawned")
    /\ [][SummaryStarted => results' = results]_vars

C6_Witness ==
    /\ mainPc = "summary" /\ workers = 2 /\ Len(results) = 2
    /\ pc[1] = "done" /\ pc[2] = "done"

\* C7: with at least one worker and at least one URL, whether the workers
\* outnumber the URLs or there is a single worker, the run ends: every URL
\* is sent, the channel is closed, every worker returns and is joined.
C7_Terminates ==
    (mainPc = "spawn" /\ workers >= 1 /\ Len(urls) >= 1) ~>
        /\ mainPc \in {"done", "panicked"}
        /\ sent = Len(urls) /\ txDropped
        /\ joined = workers
        /\ \A w \in 1..workers : pc[w] = "done"

C7_Witness ==
    /\ mainPc = "done" /\ workers = 2 /\ Len(urls) = 1
    /\ joined = 2 /\ pc[1] = "done" /\ pc[2] = "done"

\* C8: with --workers 0 or --timeout 0 the run stops before dispatch: no
\* URL is sent, and no result, summary or report is produced.
C8_ZeroConfigRejected ==
    (args.workers = Value(0) \/ args.timeout = Value(0)) =>
        /\ ~channelCreated /\ sent = 0 /\ handles = 0
        /\ results = <<>> /\ summary = NoSummary /\ ~report.written
        /\ exitCode \in {-1, 2}

\* C9: with an empty URL list main never gets past the check of line 109:
\* no channel, no worker, no result, no summary, no report, and the process
\* exits with status 2.
C9_EmptyUrlsAbort ==
    InputUrls = <<>> =>
        /\ mainPc \in {"parse", "readfile", "checkurls", "exited"}
        /\ ~channelCreated /\ handles = 0 /\ sent = 0
        /\ results = <<>> /\ stdout = <<>>
        /\ summary = NoSummary /\ ~report.written
        /\ mainPc = "exited" => exitCode = 2

C9_Witness ==
    /\ InputUrls = <<>> /\ args.file.state = "readable"
    /\ Len(args.file.lines) = 2
    /\ mainPc = "exited" /\ exitCode = 2
    /\ stderr = "Error: No URLs provided"

\* C10: when no result is a Success, the summary printed is the explicit
\* empty state: no minimum, maximum or average is produced.
C10_EmptySummary ==
    (summary # NoSummary /\ \A i \in 1..Len(results) : ~results[i].status.ok)
        => summary.kind = "empty" /\ DOMAIN summary = {"kind"}

C10_Witness ==
    /\ summary.kind = "empty"
    /\ Len(results) = 2
    /\ \A i \in 1..Len(results) : ~results[i].status.ok

\* The successful results of a vector, as a set of positions, and their
\* smallest, largest and total response time.
OkAt(rs) == {i \in 1..Len(rs) : rs[i].status.ok}
MinTime(rs) ==
    CHOOSE t \in {rs[i].response_time_ms : i \in OkAt(rs)} :
        \A i \in OkAt(rs) : t <= rs[i].response_time_ms
MaxTime(rs) ==
    CHOOSE t \in {rs[i].response_time_ms : i \in OkAt(rs)} :
        \A i \in OkAt(rs) : t >= rs[i].response_time_ms
RECURSIVE TotalTime(_, _)
TotalTime(rs, I) ==
    IF I = {} THEN 0
    ELSE LET i == CHOOSE j \in I : TRUE
         IN  rs[i].response_time_ms + TotalTime(rs, I \ {i})

\* The orders a vector could have been filled in.
Reorderings(rs) ==
    {[i \in 1..Len(rs) |-> rs[f[i]]] :
        f \in {g \in [1..Len(rs) -> 1..Len(rs)] :
                 \A i, j \in 1..Len(rs) : g[i] = g[j] => i = j}}

\* What the printed summary must be for a vector with a success.
SummaryOf(rs) ==
    [kind |-> "stats",
     min |-> MinTime(rs),
     max |-> MaxTime(rs),
     avg |-> AvgCenti(TotalTime(rs, OkAt(rs)), Cardinality(OkAt(rs)))]

TimedResult(u, st, ms) == [url |-> u, status |-> st, response_time_ms |-> ms]
Example102030 ==
    <<TimedResult("up", Ok(200), 30), TimedResult("down", Err("e"), 5),
      TimedResult("flaky", Ok(503), 10), TimedResult("up", Ok(200), 20)>>

\* The summaries of the example vector in each of its orders.
ExampleSummaries == {Summarize(p) : p \in Reorderings(Example102030)}

\* C11: when a result is a Success, the summary's min and max are the
\* smallest and largest response time among the Success results and its
\* average is their sum over their count; Failure results do not count, any
\* other order of the vector gives the same summary, and successes of 10, 20
\* and 30 ms give min 10, max 30 and average 20.00.
C11_SummaryStats ==
    /\ (summary # NoSummary /\ OkAt(results) # {}) =>
          /\ summary = SummaryOf(results)
          /\ \A p \in Reorderings(results) : Summarize(p) = summary
    /\ ExampleSummaries = {[kind |-> "stats", min |-> 10, max |-> 30,
                             avg |-> 2000]}

C11_Witness ==
    /\ summary # NoSummary /\ summary.kind = "stats"
    /\ Len(results) = 2
    /\ \/ results[1].status.ok /\ results[2].status.ok
          /\ results[1].response_time_ms > results[2].response_time_ms
          /\ summary.min = results[2].response_time_ms
       \/ ~results[1].status.ok /\ results[2].status.ok

\* The endpoints whose outcome is fixed, and that outcome.
FixedUrls == {"up", "down"}
FixedOutcome(u) == IF u = "up" THEN Ok(200) ELSE Err("connect error")
OutcomeCount(u, st) ==
    Cardinality({i \in 1..Len(results) :
                    results[i].url = u /\ results[i].status = st})

\* C12: for an input of URLs with a fixed outcome, the multiset of
\* (url, outcome) pairs after the joins is determined by the input alone: it
\* is the same whether one worker or several ran the checks.
C12_SameContentForAnyWorkerCount ==
    (AllJoined /\ workers >= 1 /\ timeout > 0
       /\ \A i \in 1..Len(InputUrls) : InputUrls[i] \in FixedUrls) =>
        /\ Len(results) = Len(InputUrls)
        /\ \A u \in FixedUrls :
              OutcomeCount(u, FixedOutcome(u)) = Count(u, InputUrls)

C12_Witness ==
    /\ AllJoined /\ workers = 2 /\ timeout > 0
    /\ InputUrls = <<"down", "up">>
    /\ Len(results) = 2
    /\ results[1].status = FixedOutcome("down")
    /\ results[2].status = FixedOutcome("up")

\* C13: a worker returns from its loop only from recv(), and only when the
\* queue is empty and the sender has been dropped after every URL was sent;
\* so while a worker has returned no URL is unsent or unclaimed.
C13_ExitOnlyWhenDrained ==
    /\ [][\A w \in Workers :
             (pc[w] # "done" /\ pc'[w] = "done") =>
                 /\ pc[w] = "recv"
                 /\ queue = <<>> /\ txDropped
                 /\ sent = Len(urls)]_vars
    /\ [](\A w \in Workers :
             pc[w] = "done" => queue = <<>> /\ txDropped /\ sent = Len(urls))

\* A worker waits in recv() on an empty queue while a URL is still unsent.
C13_Witness ==
    \E w \in Workers :
        /\ pc[w] = "recv" /\ queue = <<>> /\ ~txDropped
        /\ mainPc = "send" /\ sent >= 1 /\ sent < Len(urls)

\* C14: every result is appended by the worker whose check returned first
\* among the checks not yet appended, so the vector is in the order in which
\* the checks completed.
C14_CompletionOrder ==
    [][\A w \in Workers :
          (pc[w] = "pushing" /\ pc'[w] # "pushing") =>
              /\ pending # <<>> /\ Head(pending) = w
              /\ results' = Append(results, Status(w))]_vars

C14_Witness ==
    \E w \in Workers :
        /\ workers = 2 /\ pc[w] = "lock" /\ Len(results) = 2
        /\ pc[3 - w] = "lock" /\ pending = <<>>

IsPrefix(a, b) == Len(a) <= Len(b) /\ SubSeq(b, 1, Len(a)) = a

\* C15, as claimed: the result is appended before its live notification is
\* emitted, so every notification emitted so far belongs to a result that
\* is already in the vector.
C15_AppendBeforeNotify == IsPrefix(stdout, results)

\* C15, amended: the live notification is emitted before the result is
\* appended, so every result in the vector belongs to a notification that
\* has already been emitted.
C15_NotifyBeforeAppend == IsPrefix(results, stdout)

C15_Witness ==
    /\ Len(results) = 1 /\ Len(stdout) = 2
    /\ stdout[1] = results[1]
    /\ \E w \in Workers : pc[w] = "pushing" /\ stdout[2] = Status(w)

\* C16: a delay of 100 ms follows a failed attempt exactly when another
\* attempt follows: a sequence of k attempts has k - 1 delays, none after
\* the last attempt, so an always-failing URL has exactly `retries` delays;
\* and the time recorded for a URL covers all its attempts and delays.
C16_DelaysBetweenAttempts ==
    /\ \A w \in Workers :
          /\ pc[w] = "attempt" => sleeps[w] = calls[w]
          /\ pc[w] = "sleep" => sleeps[w] = calls[w] - 1 /\ ~response[w].ok
          /\ Returned(w) =>
                /\ sleeps[w] = calls[w] - 1
                /\ AllCallsFailed(w) => sleeps[w] = retries
                /\ elapsed[w] >= calls[w] * AttemptMs(url[w]) + sleeps[w] * 100
                /\ Status(w).response_time_ms = elapsed[w]
    /\ \A i \in 1..Len(results) :
          ~results[i].status.ok =>
              results[i].response_time_ms
                 >= (retries + 1) * AttemptMs(results[i].url) + retries * 100

C16_Witness ==
    /\ retries = 1
    /\ \E w \in Workers :
          /\ Returned(w) /\ ~result[w].ok
          /\ calls[w] = 2 /\ sleeps[w] = 1 /\ elapsed[w] >= 100
    /\ \E i \in 1..Len(results) :
          ~results[i].status.ok /\ results[i].response_time_ms >= 100

\* C17: in every step the result vector either stays as it is or gets one
\* entry appended at its end, its previous contents staying in place; the
\* summary and the report steps leave it as it is.
C17_AppendOnly ==
    [][/\ \/ results' = results
          \/ /\ Len(results') = Len(results) + 1
             /\ SubSeq(results', 1, Len(results)) = results
       /\ mainPc \in {"summary", "report"} => results' = results]_vars

C17_Witness ==
    /\ mainPc = "done" /\ report.written /\ summary # NoSummary
    /\ Len(results) = 2 /\ Len(report.entries) = 2
    /\ stdout = results

\* A step of check_website in worker w: an attempt or a delay.
CheckStep(w) == pc[w] \in {"attempt", "sleep"} /\ pc'[w] # pc[w]

\* C18: no step of check_website, attempt or delay, changes the job queue,
\* the result vector or the guards on them.
C18_CheckTouchesNothingShared ==
    [][\A w \in Workers :
          CheckStep(w) =>
              /\ queue' = queue /\ txDropped' = txDropped
              /\ results' = results
              /\ rxLock' = rxLock /\ resultsLock' = resultsLock]_vars

C18_Witness ==
    \E w \in Workers :
        /\ pc[w] = "attempt" /\ sleeps[w] >= 1
        /\ queue # <<>>

\* C19: the vector is filled in the order of the input: at every moment the
\* URLs of the results are the first URLs sent, and after the joins, with
\* at least one worker, the i-th result is that of the i-th input URL.
C19_InputOrder ==
    /\ IsPrefix(ResultUrls, InputUrls)
    /\ Len(results) <= sent
    /\ (AllJoined /\ workers >= 1) => ResultUrls = InputUrls

C19_Witness ==
    /\ AllJoined /\ workers = 2
    /\ InputUrls = <<"flaky", "up">> /\ ResultUrls = InputUrls
    /\ results[1].response_time_ms > results[2].response_time_ms

\* Worker w is between having received a URL and having appended its result.
InBody(w) == pc[w] \in {"attempt", "sleep", "print", "push", "pushing"}

\* C20: at most one worker is inside the loop body; a worker holds the guard
\* on the receiver from rx.lock() to the end of the iteration; a worker
\* holds the guard on the vector only while it holds the one on the
\* receiver; and main holds the guard on the vector only once every worker
\* has returned and been joined.
C20_OneWorkerInBody ==
    /\ Cardinality({w \in Workers : InBody(w)}) <= 1
    /\ \A w \in Workers :
          /\ rxLock = w <=> (InBody(w) \/ pc[w] = "recv")
          /\ resultsLock = w <=> pc[w] = "pushing"
          /\ resultsLock = w => rxLock = w
    /\ resultsLock = MainThread =>
          /\ rxLock = 0
          /\ joined = handles /\ handles = workers
          /\ \A w \in Workers : pc[w] \in {"done", "unspawned"}
    /\ resultsLock \in {0, MainThread} \cup Workers
    /\ rxLock \in {0} \cup Workers

C20_Witness ==
    \E w, v \in Workers :
        /\ w # v
        /\ resultsLock = w /\ rxLock = w /\ pc[w] = "pushing"
        /\ pc[v] = "lock" /\ queue # <<>>

====
